---- MODULE Spec2Model ----
(***************************************************************************)
(* A model of observability-commons: the configuration resolver            *)
(* (Config.Ensure), the facade client (NewObservability, the logging and   *)
(* metric calls, Close), the zap-backed logging delegate (OTLPLogger), the *)
(* metrics delegate (OtelMeter) and the tracing delegate's Close.          *)
(*                                                                         *)
(* The specifications share the variables:                                 *)
(*   SpecConfig  a caller holds a Config, calls Ensure on it, again and    *)
(*               again, and passes it to NewObservability;                 *)
(*   Spec        a caller passes a Config to NewObservability and then     *)
(*               uses the client: log calls, the goroutines they spawn,    *)
(*               metric calls, the push controller's collection, Close;    *)
(*   SpecLog     Spec for a caller that makes no metric call.              *)
(*   SpecCalls   Spec for log calls and metric calls only;                 *)
(*   SpecFields, SpecFieldMetrics                                          *)
(*               log calls, and metric calls, whose fields share keys with *)
(*               DefaultFields and the fixed attributes;                   *)
(*   SpecRoute   calls of the metrics exporter's endpoint selection;       *)
(*   SpecDirect  a caller that builds the pillars itself, without Ensure,  *)
(*               and logs through the logging delegate;                    *)
(*   SpecTrace   the client used for tracing: spans and their export;      *)
(*   SpecMetrics the client used for metrics: metric calls, collection     *)
(*               cycles, Close;                                            *)
(*   SpecSearchIndex, SpecErrorName                                        *)
(*               calls of Config.GetSearchIndex and of util.GetErrorName.  *)
(***************************************************************************)
EXTENDS Integers, Sequences, FiniteSets, TLC

VARIABLES
    cfg,            \* the caller's Config value
    cfg0,           \* the Config as the caller first supplied it (history)
    ensureCalls,    \* number of Ensure calls made on cfg (SpecConfig)
    ensureErr,      \* error returned by the last Ensure ("nil" when none)
    client,         \* "none": NewObservability not called; "nil": it returned
                    \* (nil, err); "live": it returned a client
    newErr,         \* error returned by NewObservability
    built,          \* constructors NewObservability ran, in order
    logger,         \* the OTLPLogger: its core's sink and level, its cfg
    meter,          \* the OtelMeter: its meter kind, exporter target, its cfg
    nextId,         \* number of log calls made so far
    now,            \* logical clock read by time.Now()
    goroutines,     \* goroutines started by logWithLevel that have not finished
    out,            \* what each sink has received, in order
    exited,         \* the process has ended (os.Exit after a Fatal write, or a panic)
    closeCalls,     \* number of Close calls that returned
    closeErr,       \* error returned by the last Close
    closeTrace,     \* the delegates the last Close closed, in order, with
                    \* what each returned
    metricCalls,    \* number of metric calls made
    metricErr,      \* error returned by the last metric call
    recorded,       \* measurements the SDK's synchronous instruments have received
    callbacks,      \* gauge observation callbacks registered with the SDK
    collects,       \* the collection cycles of the push controller so far
    ctrlRunning,    \* the push controller started by NewOtelMeter is running
    routes,         \* the calls of endpoint made so far: inputs and target
    direct,         \* what each pillar constructor returned to a caller
                    \* that called it itself ("none": not called)
    entry,          \* the Entry a caller of the logging delegate holds
    spans,          \* the spans started, with the calls made on each and
                    \* what the SDK span holds
    traceExport,    \* the calls of the span exporter and what the last returned
    results         \* the calls of a getter made so far: input and result

vars == <<cfg, cfg0, ensureCalls, ensureErr, client, newErr, built, logger,
          meter, nextId, now, goroutines, out, exited, closeCalls,
          closeErr, closeTrace, metricCalls, metricErr, recorded, callbacks,
          collects, ctrlRunning, routes, direct, entry, spans, traceExport,
          results>>

\* The state of the tracing pillar.
traceVars == <<spans, traceExport>>

\* The state of the callers that use the pillars without the facade.
callVars == <<routes, direct, entry>>

configVars == <<cfg, cfg0, ensureCalls, ensureErr>>

clientVars == <<client, newErr, built, logger, meter, nextId, now, goroutines,
                out, exited, closeCalls, closeErr, closeTrace,
                metricCalls, metricErr, recorded, callbacks, collects,
                ctrlRunning>>

----------------------------------------------------------------------------
(* Bounds of the model.                                                    *)

MaxEnsureCalls == 2
MaxLogCalls == 2
MaxCloseCalls == 1
MaxMetricCalls == 2
MaxCollects == 1

----------------------------------------------------------------------------
(* config: Mode                                                            *)

Noop == -1
Local == 0
Debug == 1
Development == 2
Production == 3

\* Mode is an int8: the values a caller can store in Config.Mode.
ModeValues == -128 .. 127

\* The Mode values the model supplies: the five named ones, their two
\* neighbours and the ends of the int8 range.
ModeInputs == {-128, -2, Noop, Local, Debug, Development, Production, 4, 127}

NilErr == "nil"
ErrNotConfigured == "app not configured"
ErrInvalidMode == "invalid log mode"
ErrInvalidHostname(err) == "invalid hostname: " \o err

DefaultFlushInterval == 30
DefaultTimeout == 10
DefaultPort == "80"

----------------------------------------------------------------------------
(* config: Config and Ensure                                               *)

\* What os.Hostname() can return: a name and a nil error, or "" and an error.
HostnameResults ==
    { [name |-> "host-a", err |-> "nil"],
      [name |-> "host-b", err |-> "nil"],
      [name |-> "", err |-> "hostname unavailable"] }

\* A map[string]string is a set of <<key, value>> pairs with distinct keys;
\* a nil *map and an empty map are both {} (the code only ranges over it).
Config(name, version, mode, searchIndex, flushInterval, timeout, port, defaultFields) ==
    [ name |-> name, version |-> version, mode |-> mode,
      searchIndex |-> searchIndex, flushInterval |-> flushInterval,
      timeout |-> timeout, port |-> port, defaultFields |-> defaultFields,
      hostname |-> "" ]

\* The zero Config (what OtelMeter.cfg holds when NewOtelMeter leaves it unset).
ZeroConfig == Config("", "", 0, "", 0, 0, "", {})

\* The mode test written as a lower bound only.
EnsureValidModeFromNoop(mode) == mode >= Noop

\* The mode test rejecting the zero value as a mode that was never set.
EnsureValidModeSet(mode) ==
    mode # 0 /\ mode \in {Noop, Local, Debug, Development, Production}

\* The mode test of Ensure.
EnsureValidMode(mode) ==
    ~(mode # Noop /\ mode # Local /\ mode # Debug /\ mode # Development /\ mode # Production)

\* The default assignments made unconditionally.
EnsureDefaultsAlways(c) ==
    [c EXCEPT !.searchIndex = c.name,
              !.flushInterval = DefaultFlushInterval,
              !.timeout = DefaultTimeout,
              !.port = DefaultPort]

\* The default assignments with the durations tested by < 0 instead of <= 0.
EnsureDefaultsStrict(c) ==
    [c EXCEPT !.searchIndex = IF c.searchIndex = "" THEN c.name ELSE c.searchIndex,
              !.flushInterval = IF c.flushInterval < 0 THEN DefaultFlushInterval ELSE c.flushInterval,
              !.timeout = IF c.timeout < 0 THEN DefaultTimeout ELSE c.timeout,
              !.port = IF c.port = "" THEN DefaultPort ELSE c.port]

\* The four default assignments of Ensure.
EnsureDefaults(c) ==
    [c EXCEPT !.searchIndex = IF c.searchIndex = "" THEN c.name ELSE c.searchIndex,
              !.flushInterval = IF c.flushInterval <= 0 THEN DefaultFlushInterval ELSE c.flushInterval,
              !.timeout = IF c.timeout <= 0 THEN DefaultTimeout ELSE c.timeout,
              !.port = IF c.port = "" THEN DefaultPort ELSE c.port]

\* Ensure with the identity test written with && instead of ||.
EnsureBothMissing(c, h) ==
    IF c.name = "" /\ c.version = ""
    THEN [cfg |-> c, err |-> ErrNotConfigured]
    ELSE IF ~EnsureValidMode(c.mode)
    THEN [cfg |-> c, err |-> ErrInvalidMode]
    ELSE [cfg |-> [EnsureDefaults(c) EXCEPT !.hostname = h.name],
          err |-> IF h.err = NilErr THEN NilErr ELSE ErrInvalidHostname(h.err)]

\* Config.Ensure on the Config c, with h what os.Hostname() returns when it is
\* reached: the Config afterwards and the error returned.
Ensure(c, h) ==
    IF c.name = "" \/ c.version = ""
    THEN [cfg |-> c, err |-> ErrNotConfigured]
    ELSE IF ~EnsureValidMode(c.mode)
    THEN [cfg |-> c, err |-> ErrInvalidMode]
    ELSE [cfg |-> [EnsureDefaults(c) EXCEPT !.hostname = h.name],
          err |-> IF h.err = NilErr THEN NilErr ELSE ErrInvalidHostname(h.err)]

GetHostname(c) == c.hostname

\* GetSearchIndex returns cfg.SearchIndex on both branches.
GetSearchIndex(c) == IF c.mode = Development THEN c.searchIndex ELSE c.searchIndex

----------------------------------------------------------------------------
(* Sinks                                                                   *)

\* os.NewFile(0, os.DevNull): file descriptor 0, the descriptor the process
\* inherited as standard input, under the name "/dev/null".
Fd0 == "fd 0"
Stdout == "stdout"

prodEndpoint == "otel-collector.garden.internal"
devEndpoint == "localhost:4317"
debugEndpoint == "localhost:4317"

\* The collector the README names for logs in Debug mode.
syslogEndpoint == "localhost:54526"

\* endpoint with the configured port used for the Debug collector as well.
endpointPortInDebug(mode, port) ==
    CASE mode = Debug -> "localhost:" \o port
      [] mode = Development -> devEndpoint
      [] mode = Production -> prodEndpoint \o ":" \o port
      [] OTHER -> ""

\* metrics.endpoint
endpoint(mode, port) ==
    CASE mode = Debug -> debugEndpoint
      [] mode = Development -> devEndpoint
      [] mode = Production -> prodEndpoint \o ":" \o port
      [] OTHER -> ""

PortInputs == {"", "4318"}

Targets ==
    {Fd0, Stdout, syslogEndpoint, ""}
        \cup {endpoint(m, p) : m \in {Debug, Development, Production},
                               p \in PortInputs \cup {DefaultPort}}

----------------------------------------------------------------------------
(* log: NewOTLPLogger                                                      *)

Levels == <<"debug", "info", "warn", "error", "fatal">>

LevelRank(l) == CHOOSE i \in 1 .. Len(Levels) : Levels[i] = l

\* zap's level check: a core at level min writes entries at level l >= min.
LevelEnabled(min, l) == LevelRank(l) >= LevelRank(min)

NoLogger == [sink |-> "", level |-> "", cfg |-> ZeroConfig]

ErrUnknownMode == "unknown mode"

\* The core at Debug level in every mode.
LoggerLevelAlwaysDebug(mode) == "debug"

\* The level of the core: Debug unless the mode is Production.
LoggerLevel(mode) == IF mode # Production THEN "debug" ELSE "info"

\* The WriteSyncer of the core, per mode ("" when the mode is unknown).
LoggerSink(mode) ==
    CASE mode = Noop -> Fd0
      [] mode = Local -> Stdout
      [] mode \in {Debug, Development, Production} -> Stdout
      [] OTHER -> ""

NewOTLPLogger(c) ==
    IF LoggerSink(c.mode) = ""
    THEN [logger |-> NoLogger, err |-> ErrUnknownMode]
    ELSE [logger |-> [sink |-> LoggerSink(c.mode), level |-> LoggerLevel(c.mode), cfg |-> c],
          err |-> NilErr]

----------------------------------------------------------------------------
(* trace: NewTracer                                                        *)

ErrResource == "failed to create resource"

\* NewTracer fails only when resource.New does; its exporter is the
\* noopExporter in every mode.
NewTracer(c, resourceOk) ==
    IF resourceOk THEN NilErr ELSE ErrResource

----------------------------------------------------------------------------
(* metrics: NewOtelMeter                                                   *)

NoMeter == [kind |-> "", exporter |-> "", target |-> "", cfg |-> ZeroConfig]

ErrExporter == "error creating otel exporter"
ErrController == "error starting push controller"
ErrMeterMode == "error creating otel meter: unknown mode"

\* The exporter NewOtelMeter builds for the mode and where it exports to.
MeterExporter(c) ==
    CASE c.mode = Local -> [exporter |-> "stdout pretty print", target |-> Stdout]
      [] c.mode \in {Debug, Development, Production} ->
            [exporter |-> "otlp grpc", target |-> endpoint(c.mode, c.port)]
      [] OTHER -> [exporter |-> "", target |-> ""]

\* NewOtelMeter: exporterOk and startOk are whether the SDK builds the exporter
\* and starts the push controller. In Noop mode the meter is the no-op meter,
\* its cfg is left unset and no controller is started. The controller collects
\* every cfg.FlushInterval: Start hands the period to time.NewTicker, which
\* panics for a period that is not positive, so the call returns neither a
\* meter nor an error (panic).
NewOtelMeter(c, exporterOk, startOk) ==
    IF c.mode = Noop
    THEN [meter |-> [kind |-> "noop", exporter |-> "", target |-> "", cfg |-> ZeroConfig],
          running |-> FALSE, err |-> NilErr, panic |-> FALSE]
    ELSE IF MeterExporter(c).exporter = ""
    THEN [meter |-> NoMeter, running |-> FALSE, err |-> ErrMeterMode, panic |-> FALSE]
    ELSE IF ~exporterOk
    THEN [meter |-> NoMeter, running |-> FALSE, err |-> ErrExporter, panic |-> FALSE]
    ELSE IF c.flushInterval <= 0
    THEN [meter |-> NoMeter, running |-> FALSE, err |-> NilErr, panic |-> TRUE]
    ELSE IF ~startOk
    THEN [meter |-> NoMeter, running |-> FALSE, err |-> ErrController, panic |-> FALSE]
    ELSE [meter |-> [kind |-> "sdk", exporter |-> MeterExporter(c).exporter,
                     target |-> MeterExporter(c).target, cfg |-> c],
          running |-> TRUE, err |-> NilErr, panic |-> FALSE]

----------------------------------------------------------------------------
(* NewObservability                                                        *)

\* NewObservability going on to the meter after the tracer failed, and
\* returning the client the meter's success allows.
ConstructPastTracer(c, h, resourceOk, exporterOk, startOk) ==
    LET e == Ensure(c, h)
        l == NewOTLPLogger(e.cfg)
        m == NewOtelMeter(e.cfg, exporterOk, startOk)
        failed(steps, err) ==
            [ok |-> FALSE, built |-> steps, err |-> err,
             logger |-> NoLogger, meter |-> NoMeter, running |-> FALSE]
    IN  IF e.err # NilErr THEN failed(<<"Ensure">>, e.err)
        ELSE IF l.err # NilErr THEN failed(<<"Ensure", "NewOTLPLogger">>, l.err)
        ELSE IF m.err # NilErr
        THEN failed(<<"Ensure", "NewOTLPLogger", "NewTracer", "NewOtelMeter">>, m.err)
        ELSE [ok |-> TRUE,
              built |-> <<"Ensure", "NewOTLPLogger", "NewTracer", "NewOtelMeter">>,
              err |-> NewTracer(e.cfg, resourceOk),
              logger |-> l.logger, meter |-> m.meter, running |-> m.running]

\* The result of NewObservability(c): the constructors run, the error, and the
\* client's delegates when every step succeeded. The meter is built from the
\* Config Ensure returned, whose FlushInterval is positive, so the controller's
\* ticker starts.
Construct(c, h, resourceOk, exporterOk, startOk) ==
    LET e == Ensure(c, h)
        l == NewOTLPLogger(e.cfg)
        t == NewTracer(e.cfg, resourceOk)
        m == NewOtelMeter(e.cfg, exporterOk, startOk)
        failed(steps, err) ==
            [ok |-> FALSE, built |-> steps, err |-> err,
             logger |-> NoLogger, meter |-> NoMeter, running |-> FALSE]
    IN  IF e.err # NilErr THEN failed(<<"Ensure">>, e.err)
        ELSE IF l.err # NilErr THEN failed(<<"Ensure", "NewOTLPLogger">>, l.err)
        ELSE IF t # NilErr THEN failed(<<"Ensure", "NewOTLPLogger", "NewTracer">>, t)
        ELSE IF m.err # NilErr
        THEN failed(<<"Ensure", "NewOTLPLogger", "NewTracer", "NewOtelMeter">>, m.err)
        ELSE [ok |-> TRUE,
              built |-> <<"Ensure", "NewOTLPLogger", "NewTracer", "NewOtelMeter">>,
              err |-> NilErr,
              logger |-> l.logger, meter |-> m.meter, running |-> m.running]

\* The caller calls NewObservability(cfg). The Config is passed by value: the
\* caller's cfg is not changed, the delegates keep the resolved copy.
NewObservability ==
    /\ client = "none"
    /\ \E h \in HostnameResults, resourceOk \in BOOLEAN,
          exporterOk \in BOOLEAN, startOk \in BOOLEAN :
          LET r == Construct(cfg, h, resourceOk, exporterOk, startOk)
          IN  /\ client' = IF r.ok THEN "live" ELSE "nil"
              /\ newErr' = r.err
              /\ built' = r.built
              /\ logger' = r.logger
              /\ meter' = r.meter
              /\ ctrlRunning' = r.running
    /\ UNCHANGED <<configVars, results, traceVars, callVars, nextId, now, goroutines, out, exited,
                   closeCalls, closeErr, closeTrace, metricCalls, metricErr,
                   recorded, callbacks, collects>>

----------------------------------------------------------------------------
(* log: Entry, the five severities, logWithLevel, generateOTLPFields       *)

\* The orders in which a range over the map m can visit its pairs.
Orders(m) ==
    { f \in [1 .. Cardinality(m) -> m] :
        \A i, j \in 1 .. Cardinality(m) : i # j => f[i] # f[j] }

\* debug.Stack() of the calling goroutine, and its MD5 digest in hexadecimal.
StackTrace == "goroutine 1 [running]:"

MD5Hash(data) ==
    CASE data = StackTrace -> "10dd6afaa3efac4e0b0b0df121e5c31f"
      [] data = "" -> "d41d8cd98f00b204e9800998ecf8427e"

\* The Entry the facade builds: Debug and Info pass a nil Err.
Entry(level, component, operation, message, err, fields) ==
    [ component |-> component, operation |-> operation, message |-> message,
      err |-> IF level \in {"debug", "info"} THEN NilErr ELSE err,
      fields |-> fields, stacktrace |-> "" ]

\* OTLPLogger.Debug/Info/Warn/Error/Fatal: the last three capture the stack.
WithStack(level, e) ==
    IF level \in {"warn", "error", "fatal"}
    THEN [e EXCEPT !.stacktrace = StackTrace]
    ELSE e

\* generateOTLPFields without the host.name attribute.
generateOTLPFieldsNoHost(lg, e, t, callOrder, defOrder) ==
    << <<"service.name", lg.cfg.name>>,
       <<"service.version", lg.cfg.version>>,
       <<"component", e.component>>,
       <<"operation", e.operation>>,
       <<"timestamp", ToString(t)>> >>
    \o callOrder
    \o defOrder

\* generateOTLPFields at time t; callOrder and defOrder are the orders in which
\* the two map ranges visit Entry.Fields and cfg.DefaultFields.
generateOTLPFields(lg, e, t, callOrder, defOrder) ==
    << <<"service.name", lg.cfg.name>>,
       <<"service.version", lg.cfg.version>>,
       <<"host.name", GetHostname(lg.cfg)>>,
       <<"component", e.component>>,
       <<"operation", e.operation>>,
       <<"timestamp", ToString(t)>> >>
    \o (IF e.err # NilErr THEN << <<"error", e.err>> >> ELSE <<>>)
    \o (IF e.stacktrace # ""
        THEN << <<"stacktrace.hash", MD5Hash(e.stacktrace)>>,
                <<"stacktrace", e.stacktrace>> >>
        ELSE <<>>)
    \o callOrder
    \o defOrder

\* What a sink receives for one log entry.
LogRecord(level, message, fields) ==
    [kind |-> "log", level |-> level, name |-> message, value |-> 0, fields |-> fields]

\* logWithLevel without the go statement: the write is made by the caller.
logWithLevelSync(level, e, callOrder, defOrder) ==
    /\ out' = [out EXCEPT ![logger.sink] =
                  Append(@, LogRecord(level, e.message,
                                      generateOTLPFields(logger, e, now, callOrder, defOrder)))]
    /\ nextId' = nextId + 1
    /\ now' = now + 1
    /\ UNCHANGED goroutines

\* logWithLevel: the fields are computed in the caller, then a goroutine is
\* started that holds the level, the message and the fields; the call returns.
\* pc is the goroutine's position: "write" before zap has handled the entry,
\* "exit" between a Fatal entry's write and zap's call of os.Exit.
logWithLevel(level, e, callOrder, defOrder) ==
    /\ goroutines' = goroutines \cup
          { [ id |-> nextId, level |-> level, message |-> e.message, ts |-> now,
              fields |-> generateOTLPFields(logger, e, now, callOrder, defOrder),
              pc |-> "write" ] }
    /\ nextId' = nextId + 1
    /\ now' = now + 1
    /\ UNCHANGED out

\* The inputs of the log calls the model makes.
ErrInputs == {"boom"}
FieldInputs == { {<<"k", "v">>} }

\* A facade log call: ObservabilityClient.Debug/Info/Warn/Error/Fatal.
Log(level, err, fields) ==
    /\ client = "live"
    /\ ~exited
    /\ nextId < MaxLogCalls
    /\ \E callOrder \in Orders(fields), defOrder \in Orders(logger.cfg.defaultFields) :
          logWithLevel(level, WithStack(level, Entry(level, "comp", "op", "hello", err, fields)),
                       callOrder, defOrder)
    /\ UNCHANGED <<configVars, results, traceVars, callVars, client, newErr, built, logger, meter, exited,
                   closeCalls, closeErr, closeTrace, metricCalls, metricErr,
                   recorded, callbacks, collects, ctrlRunning>>

\* The goroutine of a Fatal entry writing it and returning, the process
\* going on.
RunGoroutineNoExit(g, writeOk) ==
    /\ logger # NoLogger
    /\ ~exited
    /\ g \in goroutines /\ g.pc = "write"
    /\ goroutines' = goroutines \ {g}
    /\ out' = IF LevelEnabled(logger.level, g.level) /\ writeOk
              THEN [out EXCEPT ![logger.sink] =
                        Append(@, LogRecord(g.level, g.message, g.fields))]
              ELSE out
    /\ now' = now + 1
    /\ UNCHANGED <<configVars, results, traceVars, callVars, client, newErr, built, logger, meter, nextId,
                   exited, closeCalls, closeErr, closeTrace, metricCalls, metricErr,
                   recorded, callbacks, collects, ctrlRunning>>

\* The goroutine writing its entry twice.
RunGoroutineTwice(g, writeOk) ==
    /\ logger # NoLogger
    /\ ~exited
    /\ g \in goroutines /\ g.pc = "write"
    /\ goroutines' = IF g.level = "fatal"
                   THEN (goroutines \ {g}) \cup {[g EXCEPT !.pc = "exit"]}
                   ELSE goroutines \ {g}
    /\ out' = IF LevelEnabled(logger.level, g.level) /\ writeOk
              THEN [out EXCEPT ![logger.sink] =
                        @ \o << LogRecord(g.level, g.message, g.fields),
                                LogRecord(g.level, g.message, g.fields) >>]
              ELSE out
    /\ now' = now + 1
    /\ UNCHANGED <<configVars, results, traceVars, callVars, client, newErr, built, logger, meter, nextId,
                   exited, closeCalls, closeErr, closeTrace, metricCalls, metricErr,
                   recorded, callbacks, collects, ctrlRunning>>

\* The goroutine reading the clock again when it writes.
RunGoroutineRestamped(g, writeOk) ==
    /\ logger # NoLogger
    /\ ~exited
    /\ g \in goroutines /\ g.pc = "write"
    /\ goroutines' = IF g.level = "fatal"
                   THEN (goroutines \ {g}) \cup {[g EXCEPT !.pc = "exit"]}
                   ELSE goroutines \ {g}
    /\ out' = IF LevelEnabled(logger.level, g.level) /\ writeOk
              THEN [out EXCEPT ![logger.sink] =
                        Append(@, LogRecord(g.level, g.message,
                                  [g.fields EXCEPT ![6] = <<"timestamp", ToString(now)>>]))]
              ELSE out
    /\ now' = now + 1
    /\ UNCHANGED <<configVars, results, traceVars, callVars, client, newErr, built, logger, meter, nextId,
                   exited, closeCalls, closeErr, closeTrace, metricCalls, metricErr,
                   recorded, callbacks, collects, ctrlRunning>>

\* The goroutine g runs: zap drops the entry when its level is below the
\* core's, writes it to the sink otherwise (writeOk: the write succeeded). A
\* Fatal entry is never below the core's level; after its write the goroutine
\* goes on to os.Exit, and the other goroutines and the caller run meanwhile.
RunGoroutine(g, writeOk) ==
    /\ logger # NoLogger
    /\ ~exited
    /\ g \in goroutines /\ g.pc = "write"
    /\ goroutines' = IF g.level = "fatal"
                   THEN (goroutines \ {g}) \cup {[g EXCEPT !.pc = "exit"]}
                   ELSE goroutines \ {g}
    /\ out' = IF LevelEnabled(logger.level, g.level) /\ writeOk
              THEN [out EXCEPT ![logger.sink] =
                        Append(@, LogRecord(g.level, g.message, g.fields))]
              ELSE out
    /\ now' = now + 1
    /\ UNCHANGED <<configVars, results, traceVars, callVars, client, newErr, built, logger, meter, nextId,
                   exited, closeCalls, closeErr, closeTrace, metricCalls, metricErr,
                   recorded, callbacks, collects, ctrlRunning>>

\* The log writes dispatched by logWithLevel that zap has not handled yet.
PendingWrites == { g \in goroutines : g.pc = "write" }

\* The goroutine g of a Fatal entry, its write made, reaches os.Exit(1): the
\* process ends, whatever the other goroutines and the caller were about to do.
FatalExit(g) ==
    /\ ~exited
    /\ g \in goroutines /\ g.pc = "exit"
    /\ goroutines' = goroutines \ {g}
    /\ exited' = TRUE
    /\ UNCHANGED <<configVars, results, traceVars, callVars, client, newErr, built, logger, meter, nextId,
                   now, out, closeCalls, closeErr, closeTrace, metricCalls, metricErr,
                   recorded, callbacks, collects, ctrlRunning>>

----------------------------------------------------------------------------
(* trace: spans and the exporter                                           *)

MaxSpans == 1
MaxSpanCalls == 1

\* The exporter has not been called.
NoExport == [calls |-> 0, err |-> NilErr]

\* What a sink would receive for one exported span.
SpanRecord(sp) ==
    [kind |-> "span", level |-> "", name |-> sp.name, value |-> 0, fields |-> <<>>]

HasEnded(ss) == \E i \in 1 .. Len(ss) : ss[i].state = "ended"

\* An exporter that prints the spans on standard output.
ExportSpansToStdout(batch) ==
    [err |-> NilErr, target |-> Stdout,
     written |-> [i \in 1 .. Len(batch) |-> SpanRecord(batch[i])]]

\* noopExporter.ExportSpans: drops the batch and returns nil.
ExportSpans(batch) ==
    [err |-> NilErr, target |-> "", written |-> <<>>]

\* The span processor hands the ended spans to the exporter of the provider.
FlushSpans ==
    LET r == ExportSpans(SelectSeq(spans, LAMBDA sp : sp.state = "ended"))
    IN  /\ spans' = [i \in 1 .. Len(spans) |->
                        IF spans[i].state = "ended"
                        THEN [spans[i] EXCEPT !.state = "exported"]
                        ELSE spans[i]]
        /\ traceExport' = [calls |-> traceExport.calls + 1, err |-> r.err]
        /\ out' = [out EXCEPT ![r.target] = @ \o r.written]

\* StartSpan: a new span of the SDK tracer, returned with the context that
\* carries it.
StartSpan(name) ==
    /\ client = "live"
    /\ ~exited
    /\ Len(spans) < MaxSpans
    /\ spans' = Append(spans, [name |-> name, state |-> "open",
                               eventCalls |-> 0, attrCalls |-> 0,
                               events |-> <<>>, attrs |-> {}])
    /\ UNCHANGED <<configVars, results, callVars, clientVars, traceExport>>

\* AddEvent with the context of span i (OtelTracer.AddEvent) or on its handle
\* (otelSpan.AddEvent): neither passes the event to the SDK span.
AddEvent(i, name, attributes) ==
    /\ client = "live"
    /\ ~exited
    /\ i \in 1 .. Len(spans)
    /\ spans[i].state = "open"
    /\ spans[i].eventCalls < MaxSpanCalls
    /\ spans' = [spans EXCEPT ![i].eventCalls = @ + 1]
    /\ UNCHANGED <<configVars, results, callVars, clientVars, traceExport>>

\* SetAttributes with the context of span i or on its handle: neither passes
\* the attributes to the SDK span.
SetAttributes(i, attributes) ==
    /\ client = "live"
    /\ ~exited
    /\ i \in 1 .. Len(spans)
    /\ spans[i].state = "open"
    /\ spans[i].attrCalls < MaxSpanCalls
    /\ spans' = [spans EXCEPT ![i].attrCalls = @ + 1]
    /\ UNCHANGED <<configVars, results, callVars, clientVars, traceExport>>

\* otelSpan.End
EndSpan(i) ==
    /\ client = "live"
    /\ ~exited
    /\ i \in 1 .. Len(spans)
    /\ spans[i].state = "open"
    /\ spans' = [spans EXCEPT ![i].state = "ended"]
    /\ UNCHANGED <<configVars, results, callVars, clientVars, traceExport>>

\* The batch span processor of the provider exports the ended spans.
Export ==
    /\ client = "live"
    /\ ~exited
    /\ HasEnded(spans)
    /\ FlushSpans
    /\ UNCHANGED <<configVars, results, callVars, client, newErr, built, logger, meter,
                   nextId, now, goroutines, exited, closeCalls, closeErr, closeTrace,
                   metricCalls, metricErr, recorded, callbacks, collects,
                   ctrlRunning>>

----------------------------------------------------------------------------
(* Close                                                                   *)

ErrSync == "sync error"
ErrShutdown == "shutdown error"

\* OTLPLogger.Close returns logger.Sync(): the sink's Sync result. It neither
\* waits for nor runs the goroutines started by logWithLevel.
\* OtelTracer.Close returns tp.Shutdown().

\* Close closing the tracing delegate whatever the logging delegate returned.
CloseBestEffort(syncErr, shutdownErr) ==
    /\ closeTrace' = << [delegate |-> "logger", err |-> syncErr],
                        [delegate |-> "tracer", err |-> shutdownErr] >>
    /\ closeErr' = IF syncErr # NilErr THEN syncErr ELSE shutdownErr

\* ObservabilityClient.Close, with syncErr and shutdownErr what the two
\* delegates' Close return when called.
CloseDelegates(syncErr, shutdownErr) ==
    IF syncErr # NilErr
    THEN /\ closeTrace' = << [delegate |-> "logger", err |-> syncErr] >>
         /\ closeErr' = syncErr
    ELSE /\ closeTrace' = << [delegate |-> "logger", err |-> syncErr],
                             [delegate |-> "tracer", err |-> shutdownErr] >>
         /\ closeErr' = shutdownErr

\* Close stopping the push controller of the metrics delegate as well.
CloseStopsController ==
    /\ client = "live"
    /\ ~exited
    /\ closeCalls < MaxCloseCalls
    /\ \E syncErr \in {NilErr, ErrSync}, shutdownErr \in {NilErr, ErrShutdown} :
          /\ CloseDelegates(syncErr, shutdownErr)
          /\ IF syncErr = NilErr /\ HasEnded(spans)
             THEN FlushSpans
             ELSE UNCHANGED <<traceVars, out>>
    /\ closeCalls' = closeCalls + 1
    /\ ctrlRunning' = FALSE
    /\ UNCHANGED <<configVars, results, callVars, client, newErr, built, logger, meter, nextId, now,
                   goroutines, exited, metricCalls, metricErr, recorded,
                   callbacks, collects>>

Close ==
    /\ client = "live"
    /\ ~exited
    /\ closeCalls < MaxCloseCalls
    /\ \E syncErr \in {NilErr, ErrSync}, shutdownErr \in {NilErr, ErrShutdown} :
          /\ CloseDelegates(syncErr, shutdownErr)
          /\ IF syncErr = NilErr /\ HasEnded(spans)
             THEN FlushSpans
             ELSE UNCHANGED <<traceVars, out>>
    /\ closeCalls' = closeCalls + 1
    /\ UNCHANGED <<configVars, results, callVars, client, newErr, built, logger, meter, nextId, now,
                   goroutines, exited, metricCalls, metricErr, recorded,
                   callbacks, collects, ctrlRunning>>

----------------------------------------------------------------------------
(* metrics: DefaultHistogram, DefaultCounter, DefaultGauge                 *)

\* The garden_STACK environment variable ("" when unset).
StackEnv == ""

getStackName == IF StackEnv = "" THEN "-" ELSE StackEnv

\* OtelMeter.defaultAttrs, defOrder the order of the range over DefaultFields.
defaultAttrs(m, defOrder) ==
    << <<"garden.app.name", m.cfg.name>>,
       <<"garden.app.version", m.cfg.version>>,
       <<"garden.stack", getStackName>> >>
    \o defOrder

\* append(fields.ToAttrs(), meter.defaultAttrs()...)
MetricAttrs(m, callOrder, defOrder) == callOrder \o defaultAttrs(m, defOrder)

MetricPoint(kind, name, value, attrs) ==
    [kind |-> kind, level |-> "", name |-> name, value |-> value, fields |-> attrs]

ErrInstrument == "instrument error"
ErrCallback == "callback error"

MetricKinds == {"histogram", "counter", "gauge"}

\* A gauge call that registers no second callback for a metric name and
\* attributes that already have one.
MetricGaugeOnce(kind, name, value, fields, instrumentOk, registerOk) ==
    /\ client = "live"
    /\ ~exited
    /\ metricCalls < MaxMetricCalls
    /\ metricCalls' = metricCalls + 1
    /\ \E callOrder \in Orders(fields), defOrder \in Orders(meter.cfg.defaultFields) :
          LET p == MetricPoint(kind, name, value, MetricAttrs(meter, callOrder, defOrder))
          IN  IF meter.kind = "noop"
              THEN /\ metricErr' = NilErr
                   /\ UNCHANGED <<recorded, callbacks>>
              ELSE IF ~instrumentOk
              THEN /\ metricErr' = ErrInstrument
                   /\ UNCHANGED <<recorded, callbacks>>
              ELSE IF kind = "gauge"
              THEN IF registerOk
                   THEN /\ metricErr' = NilErr
                        /\ callbacks' = IF \E i \in 1 .. Len(callbacks) : callbacks[i] = p
                                        THEN callbacks
                                        ELSE Append(callbacks, p)
                        /\ UNCHANGED recorded
                   ELSE /\ metricErr' = ErrCallback
                        /\ UNCHANGED <<recorded, callbacks>>
              ELSE /\ metricErr' = NilErr
                   /\ recorded' = Append(recorded, p)
                   /\ UNCHANGED callbacks
    /\ UNCHANGED <<configVars, results, traceVars, callVars, client, newErr, built, logger, meter, nextId, now,
                   goroutines, out, exited, closeCalls, closeErr, closeTrace,
                   collects, ctrlRunning>>

\* A metric call that returns nil when the SDK fails to create the instrument
\* or to register the callback.
MetricErrorDropped(kind, name, value, fields, instrumentOk, registerOk) ==
    /\ client = "live"
    /\ ~exited
    /\ metricCalls < MaxMetricCalls
    /\ metricCalls' = metricCalls + 1
    /\ metricErr' = NilErr
    /\ \E callOrder \in Orders(fields), defOrder \in Orders(meter.cfg.defaultFields) :
          LET p == MetricPoint(kind, name, value, MetricAttrs(meter, callOrder, defOrder))
          IN  IF meter.kind = "noop" \/ ~instrumentOk \/ (kind = "gauge" /\ ~registerOk)
              THEN UNCHANGED <<recorded, callbacks>>
              ELSE IF kind = "gauge"
              THEN callbacks' = Append(callbacks, p) /\ UNCHANGED recorded
              ELSE recorded' = Append(recorded, p) /\ UNCHANGED callbacks
    /\ UNCHANGED <<configVars, results, traceVars, callVars, client, newErr, built, logger, meter, nextId, now,
                   goroutines, out, exited, closeCalls, closeErr, closeTrace,
                   collects, ctrlRunning>>

\* A facade metric call: SystemMetricHistogram/Counter/Gauge. instrumentOk and
\* registerOk are whether the SDK creates the instrument and registers the
\* gauge callback. The no-op meter creates no-op instruments, never fails and
\* records nothing.
Metric(kind, name, value, fields, instrumentOk, registerOk) ==
    /\ client = "live"
    /\ ~exited
    /\ metricCalls < MaxMetricCalls
    /\ metricCalls' = metricCalls + 1
    /\ \E callOrder \in Orders(fields), defOrder \in Orders(meter.cfg.defaultFields) :
          LET p == MetricPoint(kind, name, value, MetricAttrs(meter, callOrder, defOrder))
          IN  IF meter.kind = "noop"
              THEN /\ metricErr' = NilErr
                   /\ UNCHANGED <<recorded, callbacks>>
              ELSE IF ~instrumentOk
              THEN /\ metricErr' = ErrInstrument
                   /\ UNCHANGED <<recorded, callbacks>>
              ELSE IF kind = "gauge"
              THEN IF registerOk
                   THEN /\ metricErr' = NilErr
                        /\ callbacks' = Append(callbacks, p)
                        /\ UNCHANGED recorded
                   ELSE /\ metricErr' = ErrCallback
                        /\ UNCHANGED <<recorded, callbacks>>
              ELSE /\ metricErr' = NilErr
                   /\ recorded' = Append(recorded, p)
                   /\ UNCHANGED callbacks
    /\ UNCHANGED <<configVars, results, traceVars, callVars, client, newErr, built, logger, meter, nextId, now,
                   goroutines, out, exited, closeCalls, closeErr, closeTrace,
                   collects, ctrlRunning>>

\* The keys of a sequence of <<key, value>> pairs.
Keys(fields) == { fields[i][1] : i \in 1 .. Len(fields) }

\* The value a record carries for key. zap's encoder writes every pair of
\* the list, in order, into one JSON object, and a reader of an object that
\* repeats a name keeps the last value; the metrics SDK builds an attribute
\* set from the list, which keeps the last value of a repeated key.
Carried(fields, key) ==
    fields[CHOOSE i \in 1 .. Len(fields) :
              /\ fields[i][1] = key
              /\ \A j \in i + 1 .. Len(fields) : fields[j][1] # key][2]

RECURSIVE SumOver(_, _)
SumOver(S, f) ==
    IF S = {} THEN 0
    ELSE LET x == CHOOSE y \in S : TRUE IN f[x] + SumOver(S \ {x}, f)

\* The attribute keys the callers and the package use, in the order
\* attribute.NewSet sorts them.
AttrKeyOrder == <<"env", "garden.app.name", "garden.app.version", "garden.stack", "k">>

\* attribute.NewSet(attrs...): the pairs sorted by key, a repeated key keeping
\* its last value.
AttrSet(fields) ==
    LET present == SelectSeq(AttrKeyOrder, LAMBDA k : k \in Keys(fields))
    IN  [i \in 1 .. Len(present) |-> <<present[i], Carried(fields, present[i])>>]

\* The SDK keeps one aggregator for each instrument and attribute set.
StreamKey(p) == [kind |-> p.kind, name |-> p.name, attrs |-> AttrSet(p.fields)]

Streams(points) == { StreamKey(points[i]) : i \in 1 .. Len(points) }

\* The record one aggregator exports for the measurements it received, in
\* the order it received them: a counter their sum, a histogram their sum and
\* their number, a gauge the last value observed. The temporality is
\* cumulative and the processor keeps its memory, so the measurements of
\* earlier cycles count again.
Aggregate(k, points) ==
    LET idx == { i \in 1 .. Len(points) : StreamKey(points[i]) = k }
        last == CHOOSE i \in idx : \A j \in idx : j <= i
    IN  [kind |-> k.kind, level |-> "", name |-> k.name,
         value |-> IF k.kind = "gauge"
                   THEN points[last].value
                   ELSE SumOver(idx, [i \in idx |-> points[i].value]),
         count |-> IF k.kind = "histogram" THEN Cardinality(idx) ELSE 0,
         fields |-> k.attrs]

\* The push controller's cycle has checkpointed a batch it has not yet handed
\* to the exporter.
ExportPending == collects # <<>> /\ collects[Len(collects)].export = "pending"

\* The first half of a collection cycle of the push controller NewOtelMeter
\* started, the checkpoint: every registered callback is run, in the order the
\* range over the SDK's callback map visits them, and observes the value its
\* call captured; each aggregator yields one record. The controller runs its
\* cycles one after the other on its ticker.
Collect ==
    /\ client = "live"
    /\ ~exited
    /\ ctrlRunning
    /\ Len(collects) < MaxCollects
    /\ ~ExportPending
    /\ \E order \in Orders(1 .. Len(callbacks)) :
          LET observed == [i \in 1 .. Len(callbacks) |-> callbacks[order[i]]]
              points == recorded \o observed
              batch == { Aggregate(k, points) : k \in Streams(points) }
          IN  collects' = Append(collects, [observed |-> observed, batch |-> batch,
                                            export |-> "pending"])
    /\ UNCHANGED <<configVars, results, traceVars, callVars, client, newErr, built, logger, meter, nextId, now,
                   goroutines, out, exited, closeCalls, closeErr, closeTrace,
                   metricCalls, metricErr, recorded, callbacks, ctrlRunning>>

\* The second half of the cycle, the export: the checkpointed batch is handed
\* to the exporter, which writes its records to its target in the order the
\* range over the processor's map visits them (exportOk), or fails, the
\* failure going to the SDK's error handler and not to any caller. The
\* checkpoint's lock is released by then: metric calls, log writes and Close
\* run between the two halves, and the batch exported is the checkpointed one.
ExportMetrics(exportOk) ==
    /\ client = "live"
    /\ ~exited
    /\ ctrlRunning
    /\ ExportPending
    /\ collects' = [collects EXCEPT ![Len(collects)].export =
                                        IF exportOk THEN "done" ELSE "failed"]
    /\ \E order \in Orders(collects[Len(collects)].batch) :
          out' = IF exportOk
                 THEN [out EXCEPT ![meter.target] = @ \o order]
                 ELSE out
    /\ UNCHANGED <<configVars, results, traceVars, callVars, client, newErr, built, logger, meter, nextId, now,
                   goroutines, exited, closeCalls, closeErr, closeTrace,
                   metricCalls, metricErr, recorded, callbacks, ctrlRunning>>

----------------------------------------------------------------------------
(* The caller's Ensure calls                                               *)

\* The caller calls cfg.Ensure() on the Config it holds.
EnsureCall ==
    /\ client = "none"
    /\ ensureCalls < MaxEnsureCalls
    /\ \E h \in HostnameResults :
          /\ cfg' = Ensure(cfg, h).cfg
          /\ ensureErr' = Ensure(cfg, h).err
    /\ ensureCalls' = ensureCalls + 1
    /\ UNCHANGED <<cfg0, clientVars, callVars, traceVars, results>>

----------------------------------------------------------------------------
(* Getter calls                                                            *)

MaxGetterCalls == 1

\* The caller calls cfg.GetSearchIndex() on the Config it holds.
GetSearchIndexCall ==
    /\ client = "none"
    /\ Len(results) < MaxGetterCalls
    /\ results' = Append(results, [arg |-> cfg, result |-> GetSearchIndex(cfg)])
    /\ UNCHANGED <<configVars, clientVars, callVars, traceVars>>

MaxErrorNameCalls == 3

\* An error value by its dynamic type: nil, or a value of a struct, string
\* or integer type, or a pointer; defined is the name the type was declared
\* with ("" for a type literal), for a pointer the name of the type pointed to.
GoError(kind, defined) == [kind |-> kind, defined |-> defined]

NilGoError == GoError("nil", "")

\* nil, errors.New(..), fmt.Errorf("..%w.."), customError{..}, &customError{..},
\* syscall.Errno(2), struct{ error }{..}.
ErrorInputs ==
    { NilGoError,
      GoError("ptr", "errorString"),
      GoError("ptr", "wrapError"),
      GoError("struct", "customError"),
      GoError("ptr", "customError"),
      GoError("uintptr", "Errno"),
      GoError("struct", "") }

\* reflect.TypeOf(err).Name(): the name of a defined type, "" for any other
\* type, a pointer type among them.
TypeName(err) == IF err.kind = "ptr" THEN "" ELSE err.defined

\* GetErrorName naming a pointer-typed error after the type pointed to.
GetErrorNameOfElem(err) ==
    IF err = NilGoError THEN ""
    ELSE IF err.defined # "" THEN err.defined
    ELSE "error"

\* util.GetErrorName
GetErrorName(err) ==
    IF err = NilGoError THEN ""
    ELSE IF TypeName(err) # "" THEN TypeName(err)
    ELSE "error"

\* A caller calls util.GetErrorName(err).
GetErrorNameCall(err) ==
    /\ Len(results) < MaxErrorNameCalls
    /\ results' = Append(results, [arg |-> err, result |-> GetErrorName(err)])
    /\ UNCHANGED <<configVars, clientVars, callVars, traceVars>>

----------------------------------------------------------------------------
(* Callers that use the pillars without the facade                         *)

MaxRouteCalls == 2

\* No pillar constructor has been called by the caller itself.
NoDirect == [logger |-> "none", tracer |-> "none", meter |-> "none"]

\* The caller of the logging delegate holds no Entry yet.
NoEntry == [held |-> FALSE, e |-> Entry("info", "", "", "", NilErr, {})]

\* The Configs newClient hands to endpoint: endpoint reads Mode and Port.
RouteConfigs ==
    { Config(n, "1.0.0", m, "", 0, 0, p, {}) :
        n \in {"svc", "other"}, m \in ModeInputs, p \in PortInputs \cup {DefaultPort} }

\* newClient(c) calls endpoint(c) for the exporter's target.
Route(c) ==
    /\ Len(routes) < MaxRouteCalls
    /\ routes' = Append(routes, [cfg |-> c, target |-> endpoint(c.mode, c.port)])
    /\ UNCHANGED <<configVars, results, traceVars, clientVars, direct, entry>>

\* The Configs a caller hands to the pillar constructors without calling
\* Ensure: nothing has tested the mode, resolved the hostname or given the
\* FlushInterval a positive value.
DirectConfigs ==
    { Config("svc", "1.0.0", m, "", f, 0, "", {}) :
        m \in ModeInputs, f \in {0, DefaultFlushInterval} }

\* The caller calls log.NewOTLPLogger(cfg).
NewOTLPLoggerCall ==
    /\ client = "none"
    /\ ~exited
    /\ direct.logger = "none"
    /\ direct' = [direct EXCEPT !.logger = NewOTLPLogger(cfg).err]
    /\ logger' = NewOTLPLogger(cfg).logger
    /\ UNCHANGED <<configVars, results, traceVars, routes, entry, client, newErr, built, meter, nextId,
                   now, goroutines, out, exited, closeCalls, closeErr, closeTrace,
                   metricCalls, metricErr, recorded, callbacks, collects,
                   ctrlRunning>>

\* The caller calls trace.NewTracer(cfg).
NewTracerCall(resourceOk) ==
    /\ client = "none"
    /\ ~exited
    /\ direct.tracer = "none"
    /\ direct' = [direct EXCEPT !.tracer = NewTracer(cfg, resourceOk)]
    /\ UNCHANGED <<configVars, results, traceVars, routes, entry, clientVars>>

\* The caller calls metrics.NewOtelMeter(cfg). When the controller's ticker
\* panics the call does not return: the process ends with the panic and the
\* caller holds neither a meter nor an error.
NewOtelMeterCall(exporterOk, startOk) ==
    /\ client = "none"
    /\ ~exited
    /\ direct.meter = "none"
    /\ LET r == NewOtelMeter(cfg, exporterOk, startOk)
       IN  /\ direct' = IF r.panic THEN direct ELSE [direct EXCEPT !.meter = r.err]
           /\ meter' = r.meter
           /\ ctrlRunning' = r.running
           /\ exited' = r.panic
    /\ UNCHANGED <<configVars, results, traceVars, routes, entry, client, newErr, built, logger, nextId,
                   now, goroutines, out, closeCalls, closeErr, closeTrace,
                   metricCalls, metricErr, recorded, callbacks, collects>>

\* The caller calls OTLPLogger.Debug/Info/Warn/Error/Fatal with a *Entry:
\* a new Entry (fresh) or the Entry it passed to its previous call. Warn,
\* Error and Fatal assign logEntry.stacktrace through the pointer.
DelegateLog(level, fresh) ==
    /\ client = "none"
    /\ logger # NoLogger
    /\ ~exited
    /\ nextId < MaxLogCalls
    /\ fresh \/ entry.held
    /\ LET e == WithStack(level, IF fresh
                                 THEN Entry(level, "comp", "op", "hello", NilErr, {})
                                 ELSE entry.e)
       IN  /\ entry' = [held |-> TRUE, e |-> e]
           /\ logWithLevel(level, e, <<>>, <<>>)
    /\ UNCHANGED <<configVars, results, traceVars, routes, direct, client, newErr, built, logger, meter,
                   exited, closeCalls, closeErr, closeTrace, metricCalls, metricErr,
                   recorded, callbacks, collects, ctrlRunning>>

----------------------------------------------------------------------------
(* Field merges: call-site fields, DefaultFields, fixed attributes         *)

\* Log calls and metric calls made by the callers that collide fields.
MaxFieldCalls == 1

\* Call-site fields: none, a key DefaultFields has too, the key of a fixed
\* attribute, both.
CallFieldInputs ==
    { {}, {<<"k", "call">>}, {<<"service.name", "X">>},
      {<<"k", "call">>, <<"service.name", "X">>} }

\* Call-site fields of metric calls: none, a key DefaultFields has too, the
\* key of a fixed attribute.
MetricFieldInputs ==
    { {}, {<<"k", "call">>}, {<<"garden.app.name", "X">>} }

\* DefaultFields: none, or a key the call sites use too next to one of its own.
DefaultFieldInputs == { {}, {<<"k", "default">>, <<"env", "prod">>} }

FieldConfigs ==
    { Config("svc", "1.0.0", m, "", 0, 0, "", d) :
        m \in {Noop, Local, Debug, Development, Production},
        d \in DefaultFieldInputs }

----------------------------------------------------------------------------
(* Specifications                                                          *)

\* The Configs a caller of Ensure supplies: the private hostname is unset.
RawConfigs ==
    { Config(n, v, m, si, fi, to, p, {}) :
        n \in {"", "svc"}, v \in {"", "1.0.0"}, m \in ModeInputs,
        si \in {"", "idx"}, fi \in {-5, 0, 5}, to \in {-3, 0, 7}, p \in PortInputs }

\* The Configs a caller of NewObservability supplies.
ClientConfigs ==
    { Config(n, v, m, "", 0, 0, p, {}) :
        n \in {"", "svc"}, v \in {"", "1.0.0"}, m \in ModeInputs, p \in PortInputs }

InitClient ==
    /\ cfg0 = cfg
    /\ ensureCalls = 0
    /\ ensureErr = NilErr
    /\ client = "none"
    /\ newErr = NilErr
    /\ built = <<>>
    /\ logger = NoLogger
    /\ meter = NoMeter
    /\ nextId = 0
    /\ now = 0
    /\ goroutines = {}
    /\ out = [t \in Targets |-> <<>>]
    /\ exited = FALSE
    /\ closeCalls = 0
    /\ closeErr = NilErr
    /\ closeTrace = <<>>
    /\ metricCalls = 0
    /\ metricErr = NilErr
    /\ recorded = <<>>
    /\ callbacks = <<>>
    /\ collects = <<>>
    /\ ctrlRunning = FALSE
    /\ spans = <<>>
    /\ traceExport = NoExport
    /\ results = <<>>
    /\ routes = <<>>
    /\ direct = NoDirect
    /\ entry = NoEntry

InitConfig == cfg \in RawConfigs /\ InitClient

Init == cfg \in ClientConfigs /\ InitClient

\* The caller of the configuration resolver: Ensure calls on the Config it
\* holds, then NewObservability with it.
NextConfig ==
    \/ EnsureCall
    \/ NewObservability

Next ==
    \/ NewObservability
    \/ \E level \in {Levels[i] : i \in 1 .. Len(Levels)}, err \in ErrInputs,
          fields \in FieldInputs : Log(level, err, fields)
    \/ \E g \in goroutines, writeOk \in BOOLEAN : RunGoroutine(g, writeOk)
    \/ \E g \in goroutines : FatalExit(g)
    \/ Close
    \/ \E kind \in MetricKinds, fields \in FieldInputs,
          instrumentOk \in BOOLEAN, registerOk \in BOOLEAN :
          Metric(kind, "requests", 1, fields, instrumentOk, registerOk)
    \/ Collect
    \/ \E exportOk \in BOOLEAN : ExportMetrics(exportOk)

\* The client used for logging only: construction, log calls, their
\* goroutines, Close.
NextLog ==
    \/ NewObservability
    \/ \E level \in {Levels[i] : i \in 1 .. Len(Levels)}, err \in ErrInputs,
          fields \in FieldInputs : Log(level, err, fields)
    \/ \E g \in goroutines, writeOk \in BOOLEAN : RunGoroutine(g, writeOk)
    \/ \E g \in goroutines : FatalExit(g)
    \/ Close

\* The metrics exporter's routing on its own: calls of endpoint.
InitRoute == cfg = ZeroConfig /\ InitClient

NextRoute == \E c \in RouteConfigs : Route(c)

SpecRoute == InitRoute /\ [][NextRoute]_vars

\* A caller that builds the pillars itself from a Config it did not pass
\* through Ensure, and logs through the logging delegate.
InitDirect == cfg \in DirectConfigs /\ InitClient

NextDirect ==
    \/ NewOTLPLoggerCall
    \/ \E resourceOk \in BOOLEAN : NewTracerCall(resourceOk)
    \/ \E exporterOk \in BOOLEAN, startOk \in BOOLEAN : NewOtelMeterCall(exporterOk, startOk)
    \/ \E level \in {Levels[i] : i \in 1 .. Len(Levels)}, fresh \in BOOLEAN :
          DelegateLog(level, fresh)
    \/ \E g \in goroutines, writeOk \in BOOLEAN : RunGoroutine(g, writeOk)
    \/ \E g \in goroutines : FatalExit(g)

SpecDirect == InitDirect /\ [][NextDirect]_vars

\* The client used for logging by a caller whose call-site fields and
\* DefaultFields share keys with each other and with the fixed attributes.
InitFields == cfg \in FieldConfigs /\ InitClient

NextFields ==
    \/ NewObservability
    \/ \E level \in {Levels[i] : i \in 1 .. Len(Levels)}, err \in ErrInputs,
          fields \in CallFieldInputs : nextId < MaxFieldCalls /\ Log(level, err, fields)
    \/ \E g \in goroutines, writeOk \in BOOLEAN : RunGoroutine(g, writeOk)
    \/ \E g \in goroutines : FatalExit(g)

SpecFields == InitFields /\ [][NextFields]_vars

\* The same caller making metric calls.
NextFieldMetrics ==
    \/ NewObservability
    \/ \E kind \in MetricKinds, fields \in MetricFieldInputs,
          instrumentOk \in BOOLEAN, registerOk \in BOOLEAN :
          Metric(kind, "requests", 1, fields, instrumentOk, registerOk)
    \/ Collect
    \/ \E exportOk \in BOOLEAN : ExportMetrics(exportOk)

SpecFieldMetrics == InitFields /\ [][NextFieldMetrics]_vars

\* The client used for log calls and metric calls, without collection.
NextCalls ==
    \/ NewObservability
    \/ \E level \in {Levels[i] : i \in 1 .. Len(Levels)}, err \in ErrInputs,
          fields \in FieldInputs : nextId < MaxFieldCalls /\ Log(level, err, fields)
    \/ \E g \in goroutines, writeOk \in BOOLEAN : RunGoroutine(g, writeOk)
    \/ \E g \in goroutines : FatalExit(g)
    \/ \E kind \in MetricKinds, fields \in FieldInputs,
          instrumentOk \in BOOLEAN, registerOk \in BOOLEAN :
          Metric(kind, "requests", 1, fields, instrumentOk, registerOk)

SpecCalls == Init /\ [][NextCalls]_vars

\* The client used for tracing: spans started, given events and attributes,
\* ended and exported, and Close.
NextTrace ==
    \/ NewObservability
    \/ StartSpan("work")
    \/ \E i \in 1 .. Len(spans) : AddEvent(i, "step", {<<"k", "v">>})
    \/ \E i \in 1 .. Len(spans) : SetAttributes(i, {<<"k", "v">>})
    \/ \E i \in 1 .. Len(spans) : EndSpan(i)
    \/ Export
    \/ Close

SpecTrace == Init /\ [][NextTrace]_vars

\* The caller of the configuration resolver reading the search index of its
\* Config, before or after Ensure.
NextSearchIndex ==
    \/ EnsureCall
    \/ GetSearchIndexCall

SpecSearchIndex == InitConfig /\ [][NextSearchIndex]_vars

\* Calls of util.GetErrorName.
NextErrorName == \E err \in ErrorInputs : GetErrorNameCall(err)

SpecErrorName == InitRoute /\ [][NextErrorName]_vars

\* The values the metric calls of that client pass.
ValueInputs == {1, 2}

\* The client used for metrics: metric calls, the push controller's
\* collection cycles, Close.
NextMetrics ==
    \/ NewObservability
    \/ \E kind \in MetricKinds, value \in ValueInputs, fields \in FieldInputs,
          instrumentOk \in BOOLEAN, registerOk \in BOOLEAN :
          Metric(kind, "requests", value, fields, instrumentOk, registerOk)
    \/ Collect
    \/ \E exportOk \in BOOLEAN : ExportMetrics(exportOk)
    \/ Close

\* The Configs of that client: the no-op meter, the exporter that shares
\* standard output with the logger, an exporter with a collector of its own.
MetricsConfigs ==
    { Config("svc", "1.0.0", m, "", 0, 0, "4318", {}) : m \in {Noop, Local, Production} }

InitMetrics == cfg \in MetricsConfigs /\ InitClient

SpecMetrics == InitMetrics /\ [][NextMetrics]_vars

SpecConfig == InitConfig /\ [][NextConfig]_vars

SpecLog == Init /\ [][NextLog]_vars

Spec == Init /\ [][Next]_vars

----------------------------------------------------------------------------
(* Properties                                                              *)

FiveModes == {Noop, Local, Debug, Development, Production}

LogRecordsOn(t) == { i \in 1 .. Len(out[t]) : out[t][i].kind = "log" }

\* C1: when Close returns, no log write dispatched by an earlier log call is
\* still pending: every goroutine started before Close has run.
C1_CloseLeavesNoPendingWrite ==
    [][closeCalls' = closeCalls + 1 => PendingWrites' = {}]_vars

\* C2: a log call never writes to a sink itself: it leaves every sink as it
\* was and returns with exactly one more goroutine pending, the one holding
\* its write. The goroutines run in any order: a sink can receive the second
\* of two back-to-back calls before the first (C2_SecondCallWrittenFirst).
C2_LogCallHandsOffWrite ==
    [][nextId' = nextId + 1 =>
          /\ out' = out
          /\ \E g \in goroutines' :
                /\ g.id = nextId /\ g.pc = "write"
                /\ g \notin goroutines
                /\ goroutines' = goroutines \cup {g}]_vars

C2_SecondCallWrittenFirst ==
    \E t \in Targets :
        /\ Len(out[t]) = 2
        /\ out[t][1].kind = "log" /\ out[t][2].kind = "log"
        /\ out[t][1].fields[6] = <<"timestamp", "1">>
        /\ out[t][2].fields[6] = <<"timestamp", "0">>

\* C3: Close closes the logging delegate first; if that returns an error,
\* Close returns that error and the tracing delegate is not closed; otherwise
\* the tracing delegate is closed second and Close returns its result.
C3_CloseFailFast ==
    closeCalls > 0 =>
        /\ Len(closeTrace) >= 1
        /\ closeTrace[1].delegate = "logger"
        /\ closeTrace[1].err # NilErr =>
              /\ Len(closeTrace) = 1
              /\ closeErr = closeTrace[1].err
        /\ closeTrace[1].err = NilErr =>
              /\ Len(closeTrace) = 2
              /\ closeTrace[2].delegate = "tracer"
              /\ closeErr = closeTrace[2].err

C3_LoggerCloseFailed ==
    /\ closeCalls > 0
    /\ closeTrace = << [delegate |-> "logger", err |-> ErrSync] >>
    /\ closeErr = ErrSync

\* C4: for a Config with an empty service name or an empty service version,
\* every Ensure returns the "app not configured" error, and NewObservability
\* returns that error and no client without running a constructor.
C4_MissingIdentityRejected ==
    (cfg0.name = "" \/ cfg0.version = "") =>
        /\ ensureCalls > 0 => ensureErr = ErrNotConfigured
        /\ client # "none" =>
              /\ client = "nil"
              /\ newErr = ErrNotConfigured
              /\ built = <<"Ensure">>

C4_EmptyVersionRejected ==
    /\ cfg0.name # "" /\ cfg0.version = "" /\ cfg0.mode = Production
    /\ cfg0.searchIndex # "" /\ cfg0.port # ""
    /\ ensureCalls > 0 /\ ensureErr = ErrNotConfigured
    /\ client = "nil"

\* C5: for a Config with a service name and version whose mode is none of
\* Noop, Local, Debug, Development, Production, Ensure returns the
\* "invalid log mode" error.
C5_UnknownModeRejected ==
    (cfg0.name # "" /\ cfg0.version # "" /\ cfg0.mode \notin FiveModes) =>
        /\ ensureCalls > 0 => ensureErr = ErrInvalidMode
        /\ client # "none" => (client = "nil" /\ newErr = ErrInvalidMode)

C5_ModeFourRejected ==
    /\ cfg0.name # "" /\ cfg0.version # "" /\ cfg0.mode = 4
    /\ ensureCalls > 0 /\ ensureErr = ErrInvalidMode

AllOptionalUnset(c) ==
    c.searchIndex = "" /\ c.flushInterval = 0 /\ c.timeout = 0 /\ c.port = ""

ResolvedHostnames == { h.name : h \in { r \in HostnameResults : r.err = NilErr } }

\* C6: after a successful Ensure the search index and the port are non-empty
\* and the flush interval and the timeout are positive; when the caller left
\* every optional field unset they are the service name, "80", 30 and 10, and
\* the hostname is the one the operating system reported.
C6_DefaultsApplied ==
    (ensureCalls > 0 /\ ensureErr = NilErr) =>
        /\ cfg.searchIndex # "" /\ cfg.port # ""
        /\ cfg.flushInterval > 0 /\ cfg.timeout > 0
        /\ AllOptionalUnset(cfg0) =>
              /\ cfg.searchIndex = cfg0.name
              /\ cfg.flushInterval = 30
              /\ cfg.timeout = 10
              /\ cfg.port = "80"
              /\ cfg.hostname \in ResolvedHostnames

C6_UnsetConfigResolved ==
    /\ AllOptionalUnset(cfg0)
    /\ ensureCalls > 0 /\ ensureErr = NilErr
    /\ cfg.searchIndex = "svc" /\ cfg.port = "80"

\* C7 as stated: an Ensure call on a Config on which Ensure already succeeded
\* changes no field, and a first Ensure leaves every value the caller supplied
\* for search index, flush interval, timeout and port as it was.
C7_EnsureNeverOverwrites ==
    [][ensureCalls' = ensureCalls + 1 =>
          /\ (ensureCalls > 0 /\ ensureErr = NilErr) => cfg' = cfg
          /\ cfg.searchIndex # "" => cfg'.searchIndex = cfg.searchIndex
          /\ cfg.flushInterval # 0 => cfg'.flushInterval = cfg.flushInterval
          /\ cfg.timeout # 0 => cfg'.timeout = cfg.timeout
          /\ cfg.port # "" => cfg'.port = cfg.port]_vars

\* C7 amended: an Ensure call on a Config on which Ensure already succeeded
\* changes no field but the hostname, which every call that passes validation
\* assigns anew from the operating system; every Ensure leaves a non-empty
\* search index, a non-empty port, a positive flush interval and a positive
\* timeout as they were, and an Ensure that passes validation replaces a
\* negative flush interval or timeout by the default.
C7_EnsureKeepsSetFields ==
    [][ensureCalls' = ensureCalls + 1 =>
          /\ (ensureCalls > 0 /\ ensureErr = NilErr) =>
                [cfg' EXCEPT !.hostname = cfg.hostname] = cfg
          /\ cfg.searchIndex # "" => cfg'.searchIndex = cfg.searchIndex
          /\ cfg.flushInterval > 0 => cfg'.flushInterval = cfg.flushInterval
          /\ cfg.timeout > 0 => cfg'.timeout = cfg.timeout
          /\ cfg.port # "" => cfg'.port = cfg.port
          /\ ensureErr' \notin {ErrNotConfigured, ErrInvalidMode} =>
                /\ cfg.flushInterval < 0 => cfg'.flushInterval = DefaultFlushInterval
                /\ cfg.timeout < 0 => cfg'.timeout = DefaultTimeout]_vars

C7_SecondEnsureKeptValues ==
    /\ ensureCalls = 2 /\ ensureErr = NilErr
    /\ cfg0.searchIndex = "idx" /\ cfg0.flushInterval = 5
    /\ cfg0.timeout = 7 /\ cfg0.port = "4318"
    /\ cfg.searchIndex = "idx" /\ cfg.flushInterval = 5
    /\ cfg.timeout = 7 /\ cfg.port = "4318"

\* C8: in Noop mode no sink receives anything, whatever log calls and metric
\* calls are made, and no metric call returns an error.
C8_NoopProducesNoOutput ==
    (client = "live" /\ logger.cfg.mode = Noop) =>
        /\ \A t \in Targets : out[t] = <<>>
        /\ metricErr = NilErr

\* The sinks the policy table and the README allow for log records.
LogPolicyTargets(c) ==
    CASE c.mode = Local -> {Stdout}
      [] c.mode = Debug -> {debugEndpoint, syslogEndpoint}
      [] c.mode = Development -> {devEndpoint}
      [] c.mode = Production -> {prodEndpoint \o ":" \o c.port}
      [] OTHER -> {}

\* C9: in Local mode log records go to standard output; in Debug, Development
\* and Production mode they go to that mode's collector endpoint and are not
\* written to standard output.
C9_LogSinkFollowsPolicy ==
    (client = "live" /\ logger.cfg.mode \in {Local, Debug, Development, Production}) =>
        \A t \in Targets : LogRecordsOn(t) # {} => t \in LogPolicyTargets(logger.cfg)

\* C10: the meter per mode: Noop the no-op meter, Local the pretty-printed
\* standard-output exporter, Debug the loopback collector localhost:4317,
\* Development a collector that is not the loopback collector, Production the
\* production host joined with the configured port.
C10_MeterSinkFollowsPolicy ==
    client = "live" =>
        LET c == logger.cfg
        IN  /\ c.mode = Noop => meter.kind = "noop"
            /\ c.mode = Local =>
                  (meter.exporter = "stdout pretty print" /\ meter.target = Stdout)
            /\ c.mode = Debug =>
                  (meter.exporter = "otlp grpc" /\ meter.target = "localhost:4317")
            /\ c.mode = Development =>
                  (meter.exporter = "otlp grpc" /\ meter.target # "localhost:4317")
            /\ c.mode = Production =>
                  (meter.exporter = "otlp grpc"
                   /\ meter.target = "otel-collector.garden.internal:" \o c.port)

----------------------------------------------------------------------------
(* Routing of the metrics exporter                                         *)

\* C11: the target endpoint chooses depends on the mode and the port only:
\* two calls with the same mode and port give the same target, and for every
\* mode but Production two calls that differ in the port give the same target.
C11_RoutingDependsOnModeAndPort ==
    \A i, j \in 1 .. Len(routes) :
        /\ routes[i].cfg.mode = routes[j].cfg.mode
        /\ routes[i].cfg.port = routes[j].cfg.port \/ routes[i].cfg.mode # Production
        => routes[i].target = routes[j].target

\* Two Debug calls with different ports and names got the same collector.
C11_DebugPortsSameTarget ==
    \E i, j \in 1 .. Len(routes) :
        /\ routes[i].cfg.mode = Debug /\ routes[j].cfg.mode = Debug
        /\ routes[i].cfg.port = "4318" /\ routes[j].cfg.port = DefaultPort
        /\ routes[i].cfg.name # routes[j].cfg.name
        /\ routes[i].target = debugEndpoint /\ routes[j].target = debugEndpoint

----------------------------------------------------------------------------
(* Pillar construction on a mode outside the enumeration                   *)

\* C12: when the caller has handed a Config whose mode is outside the five
\* modes to each pillar constructor, each of the three returned an error.
C12_UnknownModeFailsEveryPillar ==
    /\ cfg.mode \notin FiveModes
    /\ direct.logger # "none" /\ direct.tracer # "none" /\ direct.meter # "none"
    => direct.logger # NilErr /\ direct.tracer # NilErr /\ direct.meter # NilErr

----------------------------------------------------------------------------
(* Field merges                                                            *)

\* The log entries handed to zap so far: the writes still pending and the
\* records the sinks received.
LogFieldLists ==
    { g.fields : g \in goroutines }
        \cup UNION { { out[t][i].fields : i \in LogRecordsOn(t) } : t \in Targets }

\* C13: when a log call passes a field whose key is also a key of DefaultFields
\* or of a fixed attribute, the value the record carries for that key is the
\* call-site value.
C13_CallSiteFieldWins ==
    \A fields \in LogFieldLists :
        \A pair \in UNION CallFieldInputs :
            (\E i \in 1 .. Len(fields) : fields[i] = pair)
                => Carried(fields, pair[1]) = pair[2]

\* C15: every log entry handed to zap, pending or received by a sink, has the
\* service name, the service version, the hostname Ensure resolved, the
\* component, the operation and a timestamp among its attributes.
C15_RecordHasFixedAttributes ==
    \A fields \in LogFieldLists :
        /\ \E i \in 1 .. Len(fields) : fields[i] = <<"service.name", logger.cfg.name>>
        /\ \E i \in 1 .. Len(fields) : fields[i] = <<"service.version", logger.cfg.version>>
        /\ \E i \in 1 .. Len(fields) :
              /\ fields[i][1] = "host.name"
              /\ fields[i][2] \in ResolvedHostnames
        /\ \E i \in 1 .. Len(fields) : fields[i] = <<"component", "comp">>
        /\ \E i \in 1 .. Len(fields) : fields[i] = <<"operation", "op">>
        /\ "timestamp" \in Keys(fields)

\* A Production sink received an error record that has the error, the stack
\* trace, two call-site fields and two default fields next to the six.
C15_FullErrorRecordWritten ==
    \E i \in LogRecordsOn(Stdout) :
        /\ logger.cfg.mode = Production
        /\ out[Stdout][i].level = "error"
        /\ Len(out[Stdout][i].fields) = 13
        /\ {"service.name", "service.version", "host.name", "component",
            "operation", "timestamp"} \subseteq Keys(out[Stdout][i].fields)

\* The measurements recorded, the observations registered and the records
\* exported so far.
MetricPoints ==
    { recorded[i] : i \in 1 .. Len(recorded) }
        \cup { callbacks[i] : i \in 1 .. Len(callbacks) }
        \cup UNION { { out[t][i] : i \in 1 .. Len(out[t]) \ LogRecordsOn(t) } : t \in Targets }

\* C14: every metric point has the service name, the service version, the
\* stack and every default field among its attributes, and when the call
\* passed a field whose key is also a key of DefaultFields or of a fixed
\* attribute, the value recorded for that key is the call-site value.
C14_MetricCallSiteFieldWins ==
    \A p \in MetricPoints :
        /\ {"garden.app.name", "garden.app.version", "garden.stack"} \subseteq Keys(p.fields)
        /\ \A d \in meter.cfg.defaultFields : \E i \in 1 .. Len(p.fields) : p.fields[i] = d
        /\ \A pair \in UNION MetricFieldInputs :
              (\E i \in 1 .. Len(p.fields) : p.fields[i] = pair)
                  => Carried(p.fields, pair[1]) = pair[2]

----------------------------------------------------------------------------
(* When the attributes of a log record are computed                        *)

\* C16: a log call computes the timestamp and the merged attributes before it
\* returns: the write it hands off holds the field list with the time read
\* during the call, which is earlier than the time the call returns; a write
\* puts on the sink exactly the field list its call computed.
C16_FieldsComputedByCaller ==
    [][ /\ \A g \in PendingWrites' \ PendingWrites :
              /\ g.ts = now
              /\ g.ts < now'
              /\ g.fields[6] = <<"timestamp", ToString(g.ts)>>
        /\ \A t \in Targets :
              Len(out'[t]) > Len(out[t]) =>
                  \E g \in PendingWrites \ PendingWrites' :
                      /\ out'[t][Len(out'[t])].fields = g.fields
                      /\ g.fields[6] = <<"timestamp", ToString(g.ts)>>
                      /\ g.ts < now ]_vars

\* The first call's record was written after the second call's, three clock
\* readings after the call, and carries the time of the call.
C16_LateWriteCarriesCallTime ==
    /\ Len(out[Stdout]) = 2
    /\ out[Stdout][2].fields[6] = <<"timestamp", "0">>
    /\ out[Stdout][1].fields[6] = <<"timestamp", "1">>
    /\ now = 4

----------------------------------------------------------------------------
(* Stack traces                                                            *)

\* The log entries handed to zap so far, each with its severity.
LogEntries ==
    { [level |-> g.level, fields |-> g.fields] : g \in goroutines }
        \cup UNION { { [level |-> out[t][i].level, fields |-> out[t][i].fields] :
                         i \in LogRecordsOn(t) } : t \in Targets }

\* C17: an entry logged by Warn, Error or Fatal has a non-empty stack trace
\* and its MD5 digest, 32 characters long; an entry logged by Debug or Info
\* has no digest.
C17_StackDigestBySeverity ==
    \A e \in LogEntries :
        IF e.level \in {"warn", "error", "fatal"}
        THEN /\ \E i \in 1 .. Len(e.fields) :
                   e.fields[i][1] = "stacktrace" /\ e.fields[i][2] # ""
             /\ \E i \in 1 .. Len(e.fields) :
                   /\ e.fields[i][1] = "stacktrace.hash"
                   /\ e.fields[i][2] = MD5Hash(StackTrace)
                   /\ Len(e.fields[i][2]) = 32
        ELSE "stacktrace.hash" \notin Keys(e.fields)

----------------------------------------------------------------------------
(* Records per log call                                                    *)

\* The number of log records the sinks have received.
LogRecordCount == SumOver(Targets, [t \in Targets |-> Cardinality(LogRecordsOn(t))])

\* C18 as stated: once every write handed off has run, in a process still
\* running, the sinks hold exactly one record for each log call made.
C18_ExactlyOneRecordPerCall ==
    PendingWrites = {} /\ ~exited => LogRecordCount = nextId

\* C18: a log call hands off exactly one write and that write puts at most one
\* record on the logger's sink, the entry of its call: none when the severity
\* is below the logger's level, one or (the write failing) none otherwise. The
\* records and the pending writes together never outnumber the calls, and in
\* Local mode the record of an Info call is on standard output with the
\* service name, the component, the operation, the message and the call-site
\* field.
C18_AtMostOneRecordPerCall ==
    /\ [](LogRecordCount + Cardinality(PendingWrites) <= nextId)
    /\ [][ /\ nextId' = nextId + 1 =>
                  Cardinality(PendingWrites') = Cardinality(PendingWrites) + 1
           /\ \A g \in PendingWrites \ PendingWrites' :
                  /\ \/ out' = out
                     \/ out' = [out EXCEPT ![logger.sink] =
                                    Append(@, LogRecord(g.level, g.message, g.fields))]
                  /\ ~LevelEnabled(logger.level, g.level) => out' = out
                  /\ (logger.cfg.mode = Local /\ g.level = "info" /\ out' # out) =>
                        LET r == out'[Stdout][Len(out'[Stdout])]
                        IN  /\ r.name = "hello"
                            /\ \E i \in 1 .. Len(r.fields) : r.fields[i] = <<"service.name", "svc">>
                            /\ \E i \in 1 .. Len(r.fields) : r.fields[i] = <<"component", "comp">>
                            /\ \E i \in 1 .. Len(r.fields) : r.fields[i] = <<"operation", "op">>
                            /\ \E i \in 1 .. Len(r.fields) : r.fields[i] = <<"k", "v">> ]_vars

\* In Production a Debug call and an Info call were made and both writes
\* have run: the sink holds the Info record only.
C18_DebugDroppedInfoWritten ==
    /\ logger.cfg.mode = Production
    /\ nextId = 2
    /\ goroutines = {}
    /\ ~exited
    /\ Len(out[Stdout]) = 1
    /\ out[Stdout][1].level = "info"
    /\ \E i \in 1 .. 2 : out[Stdout][1].fields[6] = <<"timestamp", ToString(i - 1)>>

----------------------------------------------------------------------------
(* Errors returned by log calls and metric calls                           *)

\* C19: a log call and the write it hands off, failed or not, return no error
\* and leave the client and every error the caller has seen as they were. A
\* metric call returns the error of the SDK failing to create the instrument
\* or to register the gauge callback and then records nothing; otherwise it
\* returns nil, and on the SDK meter has recorded one point or registered one
\* callback.
C19_ErrorsOfCalls ==
    [][ /\ (nextId' # nextId \/ goroutines' # goroutines) =>
              /\ metricErr' = metricErr /\ newErr' = newErr /\ closeErr' = closeErr
              /\ client' = client /\ logger' = logger
        /\ metricCalls' = metricCalls + 1 =>
              /\ metricErr' \in {NilErr, ErrInstrument, ErrCallback}
              /\ metricErr' # NilErr => recorded' = recorded /\ callbacks' = callbacks
              /\ metricErr' = ErrCallback => meter.kind = "sdk"
              /\ metricErr' = ErrInstrument => meter.kind = "sdk"
              /\ (metricErr' = NilErr /\ meter.kind = "sdk") =>
                    \/ /\ Len(recorded') = Len(recorded) + 1
                       /\ callbacks' = callbacks
                    \/ /\ Len(callbacks') = Len(callbacks) + 1
                       /\ recorded' = recorded
              /\ (metricErr' = NilErr /\ meter.kind = "noop") =>
                    recorded' = recorded /\ callbacks' = callbacks ]_vars

\* A Local client whose one log write failed and whose gauge call returned the
\* registration error: no record, no point, no callback.
C19_FailedWriteAndFailedGauge ==
    /\ logger.cfg.mode = Local
    /\ nextId = 1 /\ goroutines = {} /\ out[Stdout] = <<>>
    /\ metricCalls = 1 /\ metricErr = ErrCallback
    /\ recorded = <<>> /\ callbacks = <<>>
    /\ client = "live" /\ ~exited

----------------------------------------------------------------------------
(* Construction order                                                      *)

ConstructionSteps == <<"Ensure", "NewOTLPLogger", "NewTracer", "NewOtelMeter">>

\* The errors each step of NewObservability can return.
StepErrors(step) ==
    CASE step = "Ensure" ->
            {ErrNotConfigured, ErrInvalidMode}
                \cup { ErrInvalidHostname(h.err) : h \in HostnameResults }
      [] step = "NewOTLPLogger" -> {ErrUnknownMode}
      [] step = "NewTracer" -> {ErrResource}
      [] step = "NewOtelMeter" -> {ErrMeterMode, ErrExporter, ErrController}

\* C20: NewObservability runs Ensure, NewOTLPLogger, NewTracer and
\* NewOtelMeter in that order and stops at the first that fails: it then
\* returns that step's error and a nil client, having run no later step; it
\* returns a client, and a nil error, only when all four have run and
\* succeeded.
C20_ConstructionStopsAtFirstFailure ==
    client # "none" =>
        /\ Len(built) \in 1 .. 4
        /\ built = SubSeq(ConstructionSteps, 1, Len(built))
        /\ client = "live" <=> newErr = NilErr
        /\ client = "live" => built = ConstructionSteps
        /\ client = "nil" =>
              /\ newErr \in StepErrors(built[Len(built)])
              /\ logger = NoLogger /\ meter = NoMeter /\ ~ctrlRunning
        /\ \A h \in HostnameResults :
              Ensure(cfg, h).err = NilErr \/ h.err # NilErr
                  \/ (client = "nil" /\ built = <<"Ensure">>)

\* The tracer failed after validation and the logger succeeded: the caller
\* got its error and no client, and the meter constructor was not run.
C20_TracerFailureStopsConstruction ==
    /\ client = "nil"
    /\ built = <<"Ensure", "NewOTLPLogger", "NewTracer">>
    /\ newErr = ErrResource
    /\ meter = NoMeter /\ ~ctrlRunning

----------------------------------------------------------------------------
(* Tracing                                                                 *)

\* C21: the events added and the attributes set with the context of a span,
\* or on its handle, before it ends are recorded on that span: the span holds
\* one event for each AddEvent call and the attributes of each SetAttributes
\* call.
C21_SpanHoldsEventsAndAttributes ==
    \A i \in 1 .. Len(spans) :
        /\ Len(spans[i].events) = spans[i].eventCalls
        /\ spans[i].attrCalls > 0 => <<"k", "v">> \in spans[i].attrs

\* The records of spans among what the sinks have received.
SpanRecordsOn(t) == { i \in 1 .. Len(out[t]) : out[t][i].kind = "span" }

\* C22: whatever the mode, no span reaches standard output or a collector,
\* and no export returns an error.
C22_SpansAreDiscarded ==
    /\ \A t \in Targets : SpanRecordsOn(t) = {}
    /\ traceExport.err = NilErr

\* A Local client's span was started, ended and exported, and standard output
\* has received nothing.
C22_LocalSpanExportedNowhere ==
    /\ logger.cfg.mode = Local
    /\ \E i \in 1 .. Len(spans) : spans[i].state = "exported"
    /\ traceExport.calls > 0
    /\ \A t \in Targets : out[t] = <<>>

----------------------------------------------------------------------------
(* The search index                                                        *)

\* C23: GetSearchIndex returns the configured search index with "_dev"
\* appended in Development mode and the configured search index as it is in
\* every other mode.
C23_DevelopmentIndexHasSuffix ==
    \A i \in 1 .. Len(results) :
        results[i].result =
            IF results[i].arg.mode = Development
            THEN results[i].arg.searchIndex \o "_dev"
            ELSE results[i].arg.searchIndex

----------------------------------------------------------------------------
(* Error names                                                             *)

\* C24: GetErrorName returns "" for a nil error, the name of the type for an
\* error whose dynamic type is a named type that is not a pointer, and "error"
\* for every error whose dynamic type has no name, a pointer among them.
C24_ErrorNameByDynamicType ==
    \A i \in 1 .. Len(results) :
        LET err == results[i].arg
            name == results[i].result
        IN  /\ err.kind = "nil" => name = ""
            /\ (err.kind \notin {"nil", "ptr"} /\ err.defined # "") => name = err.defined
            /\ (err.kind = "ptr" \/ (err.kind # "nil" /\ err.defined = "")) => name = "error"

\* The three calls of the package's test: nil, errors.New, customError.
C24_TestTableCalls ==
    /\ Len(results) = 3
    /\ results[1] = [arg |-> NilGoError, result |-> ""]
    /\ results[2] = [arg |-> GoError("ptr", "errorString"), result |-> "error"]
    /\ results[3] = [arg |-> GoError("struct", "customError"), result |-> "customError"]

----------------------------------------------------------------------------
(* Severity filtering                                                      *)

\* C25: zap passes the entry of a log call on to the sink for every severity
\* and mode but one: a Debug entry in Production mode is dropped. A write that
\* runs puts no record on the sink for a Debug entry in Production, and the
\* record a sink receives has the severity of its call.
C25_OnlyProductionDropsDebug ==
    /\ [](\A g \in goroutines :
             LevelEnabled(logger.level, g.level)
                 <=> ~(logger.cfg.mode = Production /\ g.level = "debug"))
    /\ [][\A g \in PendingWrites \ PendingWrites' :
             /\ (logger.cfg.mode = Production /\ g.level = "debug") => out' = out
             /\ out' # out =>
                   /\ ~(logger.cfg.mode = Production /\ g.level = "debug")
                   /\ out'[logger.sink][Len(out'[logger.sink])].level = g.level]_vars

\* A Development client's Debug call put its record on the sink.
C25_DebugWrittenOutsideProduction ==
    /\ logger.cfg.mode = Development
    /\ nextId = 1
    /\ Len(out[logger.sink]) = 1
    /\ out[logger.sink][1].level = "debug"

----------------------------------------------------------------------------
(* Fatal                                                                   *)

\* C26 as stated: once the write of a Fatal call has executed, no write still
\* pending is written and no Close is made.
C26_NothingAfterFatalWrite ==
    [][ (\E g \in goroutines : g.pc = "exit") =>
            out' = out /\ closeCalls' = closeCalls ]_vars

\* C26: a Fatal call returns like any other log call, with its write handed
\* off and the process running. The step that runs the write leaves the
\* process running too: the goroutine of a Fatal entry, and no other, goes on
\* from its write to os.Exit, and the only step it takes from there ends the
\* process; until it does, the other writes and Close can still run. Nothing
\* but such a goroutine ends the process, and in a process that has ended no
\* pending write is written and no Close is made.
C26_FatalWriteTerminates ==
    /\ [](\A g \in goroutines : g.pc = "exit" => g.level = "fatal")
    /\ [][ /\ nextId' = nextId + 1 =>
                  /\ ~exited'
                  /\ \E g \in PendingWrites' \ PendingWrites : g.id = nextId
           /\ \A g \in PendingWrites \ PendingWrites' :
                  /\ ~exited'
                  /\ g.level = "fatal" <=> [g EXCEPT !.pc = "exit"] \in goroutines'
           /\ \A g \in goroutines \ goroutines' : g.pc = "exit" => exited'
           /\ (exited' /\ ~exited) =>
                  \E g \in goroutines \ goroutines' : g.pc = "exit" /\ g.level = "fatal"
           /\ exited =>
                  /\ exited'
                  /\ out' = out
                  /\ goroutines' = goroutines
                  /\ closeCalls' = closeCalls ]_vars

\* The write of a Fatal call ran before the write of the call made before it
\* and before any Close: the process has terminated, the earlier write is
\* still pending, the sink holds the Fatal record alone.
C26_TerminatedWithPendingWrite ==
    /\ exited
    /\ closeCalls = 0
    /\ \E g \in PendingWrites : g.id = 0 /\ g.level = "info"
    /\ Len(out[Stdout]) = 1
    /\ out[Stdout][1].level = "fatal"

----------------------------------------------------------------------------
(* Gauge callbacks                                                         *)

\* C27: every successful gauge call on the SDK meter registers one more
\* callback, also for a name and fields that already have one, and no step
\* removes or changes a callback; the checkpoint of a collection cycle runs
\* every registered callback once, each observing the value its call captured,
\* and its batch holds one gauge record for each name and attribute set, with
\* the value of a callback registered for it; the export of the cycle puts
\* that batch, as checkpointed, on the meter's target, or nothing.
C27_GaugeCallbacksAccumulate ==
    /\ [](Len(callbacks) + Len(recorded) <= metricCalls)
    /\ [][ /\ Len(callbacks') >= Len(callbacks)
           /\ SubSeq(callbacks', 1, Len(callbacks)) = callbacks
           /\ (/\ metricCalls' = metricCalls + 1
               /\ metricErr' = NilErr
               /\ meter.kind = "sdk"
               /\ recorded' = recorded) =>
                  /\ Len(callbacks') = Len(callbacks) + 1
                  /\ callbacks'[Len(callbacks')].kind = "gauge"
           /\ Len(collects') = Len(collects) + 1 =>
                  LET cycle == collects'[Len(collects')]
                  IN  /\ \E order \in Orders(1 .. Len(callbacks)) :
                             cycle.observed = [i \in 1 .. Len(callbacks) |-> callbacks[order[i]]]
                      /\ cycle.export = "pending"
                      /\ out' = out
                      /\ \A k \in Streams(callbacks) :
                             /\ Cardinality({ r \in cycle.batch : StreamKey(r) = k }) = 1
                             /\ \E r \in cycle.batch, j \in 1 .. Len(callbacks) :
                                    /\ StreamKey(r) = k
                                    /\ StreamKey(callbacks[j]) = k
                                    /\ r.value = callbacks[j].value
           /\ (ExportPending /\ collects' # collects) =>
                  LET cycle == collects[Len(collects)]
                  IN  /\ \/ collects' = [collects EXCEPT ![Len(collects)].export = "done"]
                         \/ collects' = [collects EXCEPT ![Len(collects)].export = "failed"]
                      /\ collects'[Len(collects)].export = "failed" => out' = out
                      /\ collects'[Len(collects)].export = "done" =>
                             \E order \in Orders(cycle.batch) :
                                 out' = [out EXCEPT ![meter.target] = @ \o order] ]_vars

\* Two gauge calls with the same name and fields and the values 1 and 2
\* registered two callbacks; one collection cycle ran both, the second one
\* first, and exported one gauge record, with the value 1 observed last.
C27_TwoCallbacksObserved ==
    /\ Len(callbacks) = 2
    /\ StreamKey(callbacks[1]) = StreamKey(callbacks[2])
    /\ callbacks[1].value = 1 /\ callbacks[2].value = 2
    /\ Len(collects) = 1
    /\ collects[1].observed = <<callbacks[2], callbacks[1]>>
    /\ collects[1].export = "done"
    /\ Len(out[meter.target]) = 1
    /\ out[meter.target][1].kind = "gauge" /\ out[meter.target][1].value = 1

----------------------------------------------------------------------------
(* Close and the metrics pillar                                            *)

\* C28: Close closes the logging delegate and the tracing delegate and
\* nothing else: a Close step leaves the meter, its recorded points, its
\* callbacks and its push controller as they were, so the controller of a
\* client on the SDK meter is running after Close as before, a metric call
\* made after Close records as one made before it, a checkpoint after Close
\* runs every callback and yields one record for each instrument and
\* attribute set, and an export after Close writes the checkpointed batch.
C28_CloseLeavesMetricsRunning ==
    /\ []((client = "live" /\ meter.kind = "sdk") => ctrlRunning)
    /\ [][ /\ closeCalls' = closeCalls + 1 =>
                 /\ ctrlRunning' = ctrlRunning
                 /\ meter' = meter
                 /\ recorded' = recorded /\ callbacks' = callbacks
                 /\ collects' = collects
                 /\ \A i \in 1 .. Len(closeTrace') :
                       closeTrace'[i].delegate \in {"logger", "tracer"}
           /\ (closeCalls > 0 /\ metricCalls' = metricCalls + 1
                  /\ meter.kind = "sdk" /\ metricErr' = NilErr) =>
                 Len(recorded') + Len(callbacks') = Len(recorded) + Len(callbacks) + 1
           /\ (closeCalls > 0 /\ Len(collects') = Len(collects) + 1) =>
                 /\ Len(collects'[Len(collects')].observed) = Len(callbacks)
                 /\ Cardinality(collects'[Len(collects')].batch) =
                       Cardinality(Streams(recorded \o callbacks))
           /\ (closeCalls > 0 /\ ExportPending /\ collects' # collects) =>
                 (collects'[Len(collects)].export = "done" =>
                     Len(out'[meter.target]) =
                         Len(out[meter.target]) + Cardinality(collects[Len(collects)].batch)) ]_vars

\* A client whose Close has returned: its controller is running, and the two
\* counter measurements its metric calls recorded have been exported as one
\* record, their sum.
C28_ExportAfterClose ==
    /\ closeCalls = 1
    /\ closeTrace # <<>>
    /\ ctrlRunning
    /\ Len(recorded) = 2
    /\ Len(collects) = 1 /\ collects[1].export = "done"
    /\ Len(out[meter.target]) = 1
    /\ out[meter.target][1].kind = "counter" /\ out[meter.target][1].value = 3

----------------------------------------------------------------------------
(* A failed Ensure                                                         *)

\* C29: an Ensure call that returns an error, whichever of its three, leaves
\* the Config as it was before the call.
C29_FailedEnsureChangesNothing ==
    [][(ensureCalls' = ensureCalls + 1 /\ ensureErr' # NilErr) => cfg' = cfg]_vars

----------------------------------------------------------------------------
(* The zero Mode                                                           *)

\* C30: a Config with a name and a version whose Mode is the zero value of
\* the type is a Local Config: Ensure does not reject it for its mode, and the
\* client built from it logs to standard output and exports its metrics
\* there, not to the discarding sink and the no-op meter of Noop.
C30_ZeroModeIsLocal ==
    (cfg0.mode = ZeroConfig.mode /\ cfg0.name # "" /\ cfg0.version # "") =>
        /\ Local = ZeroConfig.mode /\ Noop = -1
        /\ ensureErr \notin {ErrNotConfigured, ErrInvalidMode}
        /\ newErr \notin {ErrNotConfigured, ErrInvalidMode, ErrUnknownMode, ErrMeterMode}
        /\ client = "live" =>
              /\ logger.cfg.mode = Local
              /\ logger.sink = Stdout /\ logger.level = "debug"
              /\ meter.kind = "sdk"
              /\ meter.exporter = "stdout pretty print" /\ meter.target = Stdout

\* A Config with the zero Mode passed Ensure and NewObservability returned a
\* client on standard output.
C30_ZeroModeClientOnStdout ==
    /\ cfg0.mode = 0
    /\ ensureCalls > 0 /\ ensureErr = NilErr
    /\ client = "live"
    /\ logger.sink = Stdout /\ meter.target = Stdout

====
